---- MODULE Spec2Model ----
(***************************************************************************)
(* Modena domain-intelligence backend: the scan orchestrator (create_scan) *)
(* with its persistence, and the DNS, WHOIS and subdomain collectors.      *)
(*                                                                         *)
(* Text (Python str) is a sequence of one-character strings, so that       *)
(* lower() and rstrip(".") are computed and not assumed.                   *)
(*                                                                         *)
(* Specifications:                                                         *)
(*   SpecDNS   the DNS collector alone, every per-type outcome, with the   *)
(*             log of the queries it issued;                               *)
(*   SpecScan  one create_scan call, the collector run query by query      *)
(*             over every per-type outcome;                                *)
(*   Spec      concurrent create_scan calls on one database;               *)
(*   SpecSeq   the same calls, one at a time.                              *)
(***************************************************************************)
EXTENDS Integers, Sequences, FiniteSets, TLC

\* ------------------------------------------------------------------ bounds
\* Request slots (create_scan calls) of one run.
MaxCalls == 2
\* Persistence failures (a commit or a refresh raising) in the create_scan
\* calls of one run.
MaxFaults == 2

\* ------------------------------------------------------------------- text
\* An optional value (Python None / SQL NULL, or a value): a sequence of at
\* most one element.
None == <<>>
Some(v) == <<v>>

LowerChar(c) ==
    CASE c = "A" -> "a"
      [] c = "B" -> "b"
      [] c = "C" -> "c"
      [] OTHER -> c

\* str.lower()
Lower(s) == [i \in 1..Len(s) |-> LowerChar(s[i])]

rstrip_Once(s) ==
    IF Len(s) > 0 /\ s[Len(s)] = "." THEN SubSeq(s, 1, Len(s) - 1) ELSE s

\* str.rstrip("."): every trailing dot goes.
RECURSIVE rstrip(_)
rstrip(s) ==
    IF Len(s) > 0 /\ s[Len(s)] = "."
    THEN rstrip(SubSeq(s, 1, Len(s) - 1))
    ELSE s

\* "".join(list of str)
RECURSIVE join(_)
join(ss) == IF ss = <<>> THEN <<>> ELSE Head(ss) \o join(Tail(ss))

\* dict.get(key): None when the key is absent.
Get(d, key) == IF key \in DOMAIN d THEN Some(d[key]) ELSE None

\* ---------------------------------------------------------- DNS collector
RECORD_TYPES == <<"A", "AAAA", "MX", "TXT", "NS", "CNAME", "SOA">>

\* What resolver.resolve(domain, record_type) can do: return answers, or raise
\* NXDOMAIN, NoAnswer, NoNameservers, Timeout, or anything else.
SoftErrors == {"NoAnswer", "NoNameservers", "Timeout", "Exception"}
Outcomes == {"answers", "NXDOMAIN"} \cup SoftErrors

\* The rdata a resolver returns for each type when it answers (names come
\* back absolute, with the root dot), and the ttl of the answer.
ZoneRdata(rt) ==
    CASE rt = "A"     -> << [text |-> <<"1">>], [text |-> <<"2">>] >>
      [] rt = "AAAA"  -> << [text |-> <<":", "1">>] >>
      [] rt = "MX"    -> << [exchange |-> <<"m", "x", ".">>, preference |-> 10] >>
      [] rt = "TXT"   -> << [strings |-> << <<"v", "=">>, <<"1">> >>] >>
      [] rt = "NS"    -> << [text |-> <<"n", "s", ".">>] >>
      [] rt = "CNAME" -> << [text |-> <<"c", ".">>] >>
      [] rt = "SOA"   -> << [mname |-> <<"n", "s", ".">>,
                             rname |-> <<"h", ".">>, serial |-> <<"7">>] >>
\* resolver.resolve(domain, record_type) answering: the rdata and their ttl.
ZoneAnswers(rt) == [ttl |-> 300, rdata |-> ZoneRdata(rt)]

_extract_record_value(rdata, record_type) ==
    CASE record_type = "MX"  -> rstrip(rdata.exchange)
      [] record_type = "TXT" -> join(rdata.strings)
      [] record_type = "SOA" ->
            rdata.mname \o <<" ">> \o rdata.rname
                \o <<" ", "(", "serial", ":", " ">> \o rdata.serial \o <<")">>
      [] OTHER -> rstrip(rdata.text)

\* The dict built for one rdata of an answer (priority for MX only).
DnsRecordDict(rdata, record_type, ttl) ==
    LET base == [record_type |-> record_type,
                 record_value |-> _extract_record_value(rdata, record_type),
                 ttl |-> ttl]
    IN IF record_type = "MX"
       THEN [record_type |-> base.record_type, record_value |-> base.record_value,
             ttl |-> base.ttl, priority |-> rdata.preference]
       ELSE base

\* The inner loop over the rdata of one answer.
AnswerRecords(rt) ==
    LET answers == ZoneAnswers(rt)
    IN [k \in 1..Len(answers.rdata) |->
           DnsRecordDict(answers.rdata[k], rt, answers.ttl)]

\* The collector's state: results so far, the index of the type the loop is
\* at, how many times resolve() was called, and where the function is.
CollectorStart ==
    [results |-> <<>>, i |-> 1, queries |-> 0, phase |-> "start"]

\* `continue`, or falling off the end of the try block: the next type, and the
\* return after the last one.
LoopContinue(st) ==
    [st EXCEPT !.i = @ + 1,
               !.phase = IF st.i = Len(RECORD_TYPES) THEN "returned" ELSE "loop"]

\* `break`: straight to the return.
LoopBreak(st) == [st EXCEPT !.phase = "returned"]

OnAnswers(st) ==
    LoopContinue([st EXCEPT !.results = @ \o AnswerRecords(RECORD_TYPES[st.i])])

ExceptNXDOMAIN_Continue(st) == LoopContinue(st)

ExceptNXDOMAIN(st) == LoopBreak(st)

ExceptSoft_Break(st) == LoopBreak(st)

ExceptSoft_Raise(st) == [st EXCEPT !.phase = "raised"]

\* NoAnswer, NoNameservers, Timeout and the catch-all: log and continue.
ExceptSoft(st) == LoopContinue(st)

\* One iteration of `for record_type in RECORD_TYPES`, the resolver doing
\* `outcome` for this type.
QueryType(st, outcome) ==
    LET asked == [st EXCEPT !.queries = @ + 1]
    IN CASE outcome = "answers"  -> OnAnswers(asked)
         [] outcome = "NXDOMAIN" -> ExceptNXDOMAIN(asked)
         [] OTHER                -> ExceptSoft(asked)

\* scan_dns_records against a resolver that does res[record_type] for each
\* type: the loop run to its return.
RECURSIVE RunLoop(_, _)
RunLoop(st, res) ==
    IF st.phase # "loop"
    THEN st
    ELSE RunLoop(QueryType(st, res[RECORD_TYPES[st.i]]), res)

\* dns.resolver.Resolver() reads the host's resolver configuration and raises
\* NoResolverConfiguration when there is none; it is outside the loop's try.
ResolverSetups == {"ok", "NoResolverConfiguration"}

Configure(st, setup) ==
    IF setup = "ok" THEN [st EXCEPT !.phase = "loop"]
                    ELSE [st EXCEPT !.phase = "raised"]

scan_dns_records(setup, res) == RunLoop(Configure(CollectorStart, setup), res)

\* -------------------------------------------------------- WHOIS collector
\* What whois.whois(domain) can do: return a parsed entry (domain_name None
\* when the registry knows no registration), raise PywhoisError (the response
\* cannot be parsed), or raise anything else (network, timeout).
WhoisEntry ==
    [domain_name |-> [t |-> "str", v |-> <<"a", "b", "c">>],
     registrar |-> [t |-> "list", v |-> << <<"R">>, <<"r">> >>],
     creation_date |-> [t |-> "list", v |-> <<1997, 1998>>],
     expiration_date |-> [t |-> "datetime", v |-> 2028],
     updated_date |-> [t |-> "none"],
     name_servers |-> [t |-> "list", v |-> << <<"N", "S", ".">>, <<"n", "s">> >>],
     country |-> [t |-> "str", v |-> <<"U", "S">>],
     text |-> <<"r", "a", "w">>]

\* The parsed entries: a registration; no domain_name (None, "" or []); and
\* a name_servers value that is neither None, a str nor a list.
WhoisEntries ==
    { WhoisEntry,
      [WhoisEntry EXCEPT !.domain_name = [t |-> "none"]],
      [WhoisEntry EXCEPT !.domain_name = [t |-> "str", v |-> <<>>]],
      [WhoisEntry EXCEPT !.domain_name = [t |-> "list", v |-> <<>>]],
      [WhoisEntry EXCEPT !.name_servers = [t |-> "int", v |-> <<"7">>]] }

WhoisReplies ==
    {[kind |-> "entry", w |-> w] : w \in WhoisEntries}
        \cup {[kind |-> "PywhoisError"], [kind |-> "Exception"]}

_safe_get(value) ==
    CASE value.t = "none" -> None
      [] value.t = "list" -> IF value.v # <<>> THEN Some(value.v[1]) ELSE None
      [] OTHER -> Some(value.v)

_normalize_date(date_value) ==
    CASE date_value.t = "none" -> None
      [] date_value.t = "list" ->
            IF date_value.v # <<>> THEN Some(date_value.v[1]) ELSE None
      [] date_value.t = "datetime" -> Some(date_value.v)
      [] date_value.t = "str" ->
            IF date_value.iso THEN Some(date_value.v) ELSE None
      [] OTHER -> None

\* Code-point order of the characters used.
Alphabet == <<".", "1", "2", "7", "A", "B", "C", "N", "R", "S", "U",
              "a", "b", "c", "n", "r", "s", "x", "y", "z">>
Ord(c) == CHOOSE i \in 1..Len(Alphabet) : Alphabet[i] = c

\* str <= str
RECURSIVE StrLeq(_, _)
StrLeq(a, b) ==
    IF a = <<>> THEN TRUE
    ELSE IF b = <<>> THEN FALSE
    ELSE IF a[1] = b[1] THEN StrLeq(Tail(a), Tail(b))
    ELSE Ord(a[1]) < Ord(b[1])

\* sorted(set of str)
RECURSIVE sorted(_)
sorted(S) ==
    IF S = {} THEN <<>>
    ELSE LET m == CHOOSE x \in S : \A y \in S : StrLeq(x, y)
         IN <<m>> \o sorted(S \ {m})

\* `for ns in ns_value` over a value that cannot be iterated raises TypeError.
NameserversRaise(ns_value) == ns_value.t \notin {"none", "str", "list"}

_normalize_nameservers(ns_value) ==
    IF ns_value.t = "none" THEN None
    ELSE LET l == IF ns_value.t = "str" THEN <<ns_value.v>> ELSE ns_value.v
             nameservers ==
                 {rstrip(Lower(l[k])) : k \in {j \in 1..Len(l) : l[j] # <<>>}}
         IN IF nameservers # {} THEN Some(sorted(nameservers)) ELSE None

\* The try block of scan_whois: the exception it ends in ("" for none) and
\* the value it returns.
WhoisTry(reply) ==
    CASE reply.kind = "PywhoisError" -> [exc |-> "PywhoisError", value |-> None]
      [] reply.kind = "Exception" -> [exc |-> "Exception", value |-> None]
      [] OTHER ->
            IF reply.w.domain_name.t = "none"
            THEN [exc |-> "", value |-> None]
            ELSE IF NameserversRaise(reply.w.name_servers)
            THEN [exc |-> "TypeError", value |-> None]
            ELSE [exc |-> "", value |-> Some(
                 [registrar |-> _safe_get(reply.w.registrar),
                  creation_date |-> _normalize_date(reply.w.creation_date),
                  expiration_date |-> _normalize_date(reply.w.expiration_date),
                  updated_date |-> _normalize_date(reply.w.updated_date),
                  name_servers |-> _normalize_nameservers(reply.w.name_servers),
                  registrant_country |-> _safe_get(reply.w.country),
                  raw_data |-> Some(reply.w.text)])]

ExceptWhois_Reraise(o) == [raised |-> o.exc, value |-> None]

\* except PywhoisError / except Exception: log and return None.
ExceptWhois(o) == [raised |-> "", value |-> None]

\* scan_whois: what it raises ("" when it returns) and what it returns.
scan_whois(reply) ==
    LET o == WhoisTry(reply)
    IN IF o.exc # "" THEN ExceptWhois(o) ELSE [raised |-> "", value |-> o.value]

\* ---------------------------------------------------- subdomain collector
\* `async def` called without await: the caller gets a coroutine object. (The
\* coroutine, if it ran, would return a dict, not a list of records.)
scan_subdomains(domain) ==
    [type |-> "coroutine",
     returns |-> [domain |-> domain, subdomains |-> <<>>,
                  status |-> "not_implemented"]]

\* iter(value) succeeds on a list; on a coroutine it raises TypeError.
Iterable(value) == value.type = "list"

\* ------------------------------------------------------------ persistence
\* The domain names requests carry (ScanCreate.domain_name, 3 characters at
\* least): two spellings of one name, and another name.
Names == {<<"a", "b", "c">>, <<"A", "b", "C">>, <<"x", "y", "z">>}

Calls == 1..MaxCalls

\* ScanCreate.domain_name: Field(..., min_length=3, max_length=255)
min_length == 3
max_length == 255

ValidName_Any(n) == TRUE

ValidName(n) == Len(n) >= min_length /\ Len(n) <= max_length

\* Names that fail the validation: too short (empty, two characters) and too
\* long (256 characters).
BadNames ==
    {<<>>, <<"a", "b">>, [i \in 1..(max_length + 1) |-> "a"]}

\* The resolver the multi-call specifications run the DNS collector against:
\* A times out, MX answers, the other types have no data.
Resolver ==
    [rt \in {RECORD_TYPES[k] : k \in 1..Len(RECORD_TYPES)} |->
        CASE rt = "A" -> "Timeout" [] rt = "MX" -> "answers" [] OTHER -> "NoAnswer"]

\* datetime.utcnow(): some timestamp, never None.
utcnow == "utcnow"

VARIABLES
    domains,       \* table domains: row id -> [domain_name, is_active]
    scans,         \* table scans
    dns_records,   \* table dns_records
    whois_data,    \* table whois_data
    subdomains,    \* table subdomains
    call,          \* per create_scan call: its position, request, locals,
                   \* session and response (see NoCall)
    faults,        \* persistence failures so far in create_scan calls
    collector,     \* SpecDNS, SpecScan: the running scan_dns_records call
    log,           \* SpecDNS: the outcome of each query issued, in order
    lookup,        \* SpecScan, SpecSvc: the scan_whois call made, and its result
    dcall,         \* SpecSvc: the create_domain call
    seen,          \* SpecSvc: the response to the last read or delete request
    norm,          \* SpecNorm: the last _extract_record_value call
    nsnorm         \* SpecNs: the last _normalize_nameservers call

tables == <<domains, scans, dns_records, whois_data, subdomains>>
dnsVars == <<collector, log>>
restVars == <<lookup, dcall, seen, norm, nsnorm>>
vars == <<tables, call, faults, dnsVars, restVars>>

EmptySession == [dns |-> <<>>, whois |-> <<>>, subs |-> <<>>]
NoResponse == [code |-> 0, detail |-> "", body |-> None]

\* A call before its request arrives.
NoCall ==
    [pc |-> "idle",                 \* where create_scan is
     req |-> [domain_name |-> <<>>, \* scan_data (ScanCreate)
              include_subdomains |-> TRUE, include_whois |-> TRUE],
     domain |-> 0,                  \* the id of `domain` (0: not bound)
     scan |-> 0,                    \* the id of `scan` (0: not bound)
     dns_results |-> <<>>,          \* what scan_dns_records returned
     whois_result |-> None,         \* what scan_whois returned
     session |-> EmptySession,      \* objects added to db, not yet flushed
     exc |-> "",                    \* the exception the except block caught
     resp |-> NoResponse]           \* the HTTP response

\* No scan_whois call yet.
NoLookup ==
    [invoked |-> FALSE, reply |-> [kind |-> "none"],
     result |-> [raised |-> "", value |-> None]]

\* create_domain before its request arrives.
NoDomainCall == [pc |-> "idle", name |-> <<>>, resp |-> NoResponse]

\* No _extract_record_value call yet.
NoNormalized == [record_type |-> "", rdata |-> [text |-> <<>>], value |-> <<>>]

\* No _normalize_nameservers call yet.
NoNameservers ==
    [called |-> FALSE, ns_value |-> [t |-> "none"], nameservers |-> None]

Init ==
    /\ domains = <<>>
    /\ scans = <<>>
    /\ dns_records = <<>>
    /\ whois_data = <<>>
    /\ subdomains = <<>>
    /\ call = [r \in Calls |-> NoCall]
    /\ faults = 0
    /\ collector = CollectorStart
    /\ log = <<>>
    /\ lookup = NoLookup
    /\ dcall = NoDomainCall
    /\ seen = NoResponse
    /\ norm = NoNormalized
    /\ nsnorm = NoNameservers

\* Rows as the models build them (timestamps other than completed_at left out).
DomainRow(name) == [domain_name |-> name, is_active |-> TRUE]

ScanRow(domain_id) ==
    [domain_id |-> domain_id, status |-> "running",
     completed_at |-> None, error_message |-> None]

DNSRecordRow(scan_id, record) ==
    [scan_id |-> scan_id,
     record_type |-> record.record_type,
     record_value |-> record.record_value,
     ttl |-> Get(record, "ttl"),
     priority |-> Get(record, "priority")]

WhoisDataRow(scan_id, result) ==
    [scan_id |-> scan_id,
     registrar |-> result.registrar,
     creation_date |-> result.creation_date,
     expiration_date |-> result.expiration_date,
     updated_date |-> result.updated_date,
     name_servers |-> result.name_servers,
     registrant_country |-> result.registrant_country,
     raw_data |-> result.raw_data]

SubdomainRow(scan_id, sub) ==
    [scan_id |-> scan_id,
     subdomain_name |-> sub.subdomain_name,
     full_domain |-> sub.full_domain,
     ip_address |-> Get(sub, "ip_address"),
     is_alive |-> IF "is_alive" \in DOMAIN sub THEN sub.is_alive ELSE FALSE,
     http_status |-> Get(sub, "http_status")]

DnsRows_DropLast(scan_id, results) ==
    [k \in 1..(Len(results) - 1) |-> DNSRecordRow(scan_id, results[k])]

DnsRows(scan_id, results) ==
    [k \in 1..Len(results) |-> DNSRecordRow(scan_id, results[k])]

WhoisRows_Twice(scan_id, result) ==
    IF result # None
    THEN <<WhoisDataRow(scan_id, result[1]), WhoisDataRow(scan_id, result[1])>>
    ELSE <<>>

\* `if whois_result:` and the WhoisData built from it.
WhoisRows(scan_id, result) ==
    IF result # None THEN <<WhoisDataRow(scan_id, result[1])>> ELSE <<>>

NormalizedName_Raw(scan_data) == scan_data.domain_name

\* domain_name = scan_data.domain_name.lower()
NormalizedName(scan_data) == Lower(scan_data.domain_name)

FindDomain_ActiveOnly(name) ==
    LET ids == {id \in 1..Len(domains) :
                   domains[id].domain_name = name /\ domains[id].is_active}
    IN IF ids = {} THEN 0 ELSE CHOOSE id \in ids : \A other \in ids : id <= other

\* db.query(Domain).filter(Domain.domain_name == name).first(): an id, or 0.
FindDomain(name) ==
    LET ids == {id \in 1..Len(domains) : domains[id].domain_name = name}
    IN IF ids = {} THEN 0 ELSE CHOOSE id \in ids : \A other \in ids : id <= other

\* The rows of a child table that belong to a scan.
RowsOf(table, scan_id) ==
    LET Owned(row) == row.scan_id = scan_id IN SelectSeq(table, Owned)

\* ScanResultResponse(scan=scan, domain=domain, dns_records=..., ...), the
\* relationships loaded from the database.
ScanResult(scan_id) ==
    [scan |-> [id |-> scan_id] @@ scans[scan_id],
     domain |-> domains[scans[scan_id].domain_id],
     dns_records |-> RowsOf(dns_records, scan_id),
     whois |-> IF RowsOf(whois_data, scan_id) = <<>> THEN None
               ELSE Some(RowsOf(whois_data, scan_id)[1]),
     subdomains |-> RowsOf(subdomains, scan_id)]

\* scan.status = "completed"; scan.completed_at = datetime.utcnow()
MarkCompleted(row) ==
    [row EXCEPT !.status = "completed", !.completed_at = Some(utcnow)]

MarkFailed_NoTime(row, e) ==
    [row EXCEPT !.status = "failed", !.error_message = Some(e)]

\* scan.status = "failed"; scan.error_message = str(e); scan.completed_at = ...
MarkFailed(row, e) ==
    [row EXCEPT !.status = "failed", !.error_message = Some(e),
                !.completed_at = Some(utcnow)]

\* create_scan is left, by return (201) or by an exception (500): get_db
\* closes the session, and the locals are gone (the id of the Scan the call
\* created is kept, to name the row afterwards).
Finished(c, code, detail, body) ==
    [c EXCEPT !.pc = "done",
              !.resp = [code |-> code, detail |-> detail, body |-> body],
              !.domain = 0,
              !.dns_results = <<>>, !.whois_result = None,
              !.session = EmptySession, !.exc = ""]

Commit_StatusOnly(c, row) ==
    /\ scans' = [scans EXCEPT ![c.scan] = row]
    /\ UNCHANGED <<domains, dns_records, whois_data, subdomains>>

HandlerExit_FallThrough(c) == [c EXCEPT !.pc = "return", !.session = EmptySession]

\* The except block ends with `raise HTTPException(500, "Scan failed: ...")`.
HandlerExit(c) == Finished(c, 500, c.exc, None)

\* A persistence call raises (the database is unreachable, the connection drops).
Inject ==
    /\ faults < MaxFaults
    /\ faults' = faults + 1

\* db.commit() succeeding in call c: the session's pending rows are inserted
\* and the scan row is updated to `row`, in one transaction.
Commit(c, row) ==
    /\ scans' = [scans EXCEPT ![c.scan] = row]
    /\ dns_records' = dns_records \o c.session.dns
    /\ whois_data' = whois_data \o c.session.whois
    /\ subdomains' = subdomains \o c.session.subs
    /\ UNCHANGED domains

\* --------------------------------------------------------------- create_scan
\* The request arrives (slots are taken in order).
Receive(r) ==
    /\ call[r].pc = "idle"
    /\ \A earlier \in 1..(r - 1) : call[earlier].pc # "idle"
    /\ \E n \in Names, sub \in BOOLEAN, wh \in BOOLEAN :
          call' = [call EXCEPT ![r].pc = "get_domain",
                               ![r].req = [domain_name |-> n,
                                           include_subdomains |-> sub,
                                           include_whois |-> wh]]
    /\ UNCHANGED <<tables, faults, dnsVars, restVars>>

\* The request arrives with any body: one that fails the validation of
\* ScanCreate is answered 422 by the framework, and create_scan is not called.
Request(r) ==
    /\ call[r].pc = "idle"
    /\ \A earlier \in 1..(r - 1) : call[earlier].pc # "idle"
    /\ \E n \in Names \cup BadNames, sub \in BOOLEAN, wh \in BOOLEAN :
          LET scan_data == [domain_name |-> n, include_subdomains |-> sub,
                            include_whois |-> wh]
          IN IF ValidName(n)
             THEN call' = [call EXCEPT ![r].pc = "get_domain",
                                       ![r].req = scan_data]
             ELSE call' = [call EXCEPT ![r] =
                              Finished([@ EXCEPT !.req = scan_data], 422,
                                       "RequestValidationError", None)]
    /\ UNCHANGED <<tables, faults, dnsVars, restVars>>

\* Step 1, the lookup.
GetDomain(r) ==
    /\ call[r].pc = "get_domain"
    /\ LET found == FindDomain(NormalizedName(call[r].req))
       IN call' = [call EXCEPT ![r].domain = found,
                               ![r].pc = IF found = 0 THEN "add_domain"
                                                      ELSE "add_scan"]
    /\ UNCHANGED <<tables, faults, dnsVars, restVars>>

\* Step 1, the insert: db.add(domain); db.commit(); db.refresh(domain). The
\* column is unique: the insert of a name that is there by now raises
\* IntegrityError, which nothing catches. The commit or the refresh may raise
\* for the database's own reasons too.
AddDomain(r) ==
    /\ call[r].pc = "add_domain"
    /\ LET name == NormalizedName(call[r].req)
       IN \/ /\ FindDomain(name) # 0
             /\ call' = [call EXCEPT ![r] = Finished(@, 500, "IntegrityError", None)]
             /\ UNCHANGED <<domains, faults>>
          \/ /\ FindDomain(name) = 0
             /\ domains' = Append(domains, DomainRow(name))
             /\ call' = [call EXCEPT ![r].domain = Len(domains) + 1,
                                     ![r].pc = "add_scan"]
             /\ UNCHANGED faults
          \/ /\ FindDomain(name) = 0
             /\ Inject
             /\ call' = [call EXCEPT ![r] = Finished(@, 500, "OperationalError", None)]
             /\ \/ UNCHANGED domains
                \/ domains' = Append(domains, DomainRow(name))
    /\ UNCHANGED <<scans, dns_records, whois_data, subdomains, dnsVars, restVars>>

\* Step 2: db.add(scan); db.commit(); db.refresh(scan). Either call may raise,
\* outside the try block.
AddScan(r) ==
    /\ call[r].pc = "add_scan"
    /\ \/ /\ scans' = Append(scans, ScanRow(call[r].domain))
          /\ call' = [call EXCEPT ![r].scan = Len(scans) + 1, ![r].pc = "dns"]
          /\ UNCHANGED faults
       \/ /\ Inject
          /\ call' = [call EXCEPT ![r] = Finished(@, 500, "OperationalError", None)]
          /\ \/ UNCHANGED scans
             \/ scans' = Append(scans, ScanRow(call[r].domain))
    /\ UNCHANGED <<domains, dns_records, whois_data, subdomains, dnsVars, restVars>>

\* Step 3 once scan_dns_records is over: it raised, or its records are added
\* to the session.
DnsDone(c, st) ==
    IF st.phase = "raised"
    THEN [c EXCEPT !.exc = "NoResolverConfiguration", !.pc = "except"]
    ELSE [c EXCEPT !.dns_results = st.results,
                   !.session.dns = DnsRows(c.scan, st.results),
                   !.pc = "whois"]

\* Step 3, the collector run in one step against a resolver.
RunDns(r) ==
    /\ call[r].pc = "dns"
    /\ \E setup \in ResolverSetups :
          call' = [call EXCEPT ![r] = DnsDone(@, scan_dns_records(setup, Resolver))]
    /\ UNCHANGED <<tables, faults, dnsVars, restVars>>

\* Step 3, the collector run query by query: the resolver is set up, ...
DnsSetup(r) ==
    /\ call[r].pc = "dns"
    /\ collector.phase = "start"
    /\ \E setup \in ResolverSetups : collector' = Configure(collector, setup)
    /\ UNCHANGED <<tables, call, faults, log, restVars>>

\* ... each type is queried, ...
DnsQuery(r) ==
    /\ call[r].pc = "dns"
    /\ collector.phase = "loop"
    /\ \E outcome \in Outcomes : collector' = QueryType(collector, outcome)
    /\ UNCHANGED <<tables, call, faults, log, restVars>>

\* ... and the collector returns or raises.
DnsReturn(r) ==
    /\ call[r].pc = "dns"
    /\ collector.phase \in {"returned", "raised"}
    /\ call' = [call EXCEPT ![r] = DnsDone(@, collector)]
    /\ UNCHANGED <<tables, faults, dnsVars, restVars>>

\* Step 4 once scan_whois is over: it raised, or its data, if any, is added to
\* the session.
WhoisDone(c, result) ==
    IF result.raised # ""
    THEN [c EXCEPT !.exc = result.raised, !.pc = "except"]
    ELSE [c EXCEPT !.whois_result = result.value,
                   !.session.whois = WhoisRows(c.scan, result.value),
                   !.pc = "subdomains"]

\* Step 4.
Whois(r) ==
    /\ call[r].pc = "whois"
    /\ IF call[r].req.include_whois
       THEN \E reply \in WhoisReplies :
               call' = [call EXCEPT ![r] = WhoisDone(@, scan_whois(reply))]
       ELSE call' = [call EXCEPT ![r].pc = "subdomains"]
    /\ UNCHANGED <<tables, faults, dnsVars, restVars>>

\* Step 4, with the scan_whois call kept.
WhoisLookup(r) ==
    /\ call[r].pc = "whois"
    /\ IF call[r].req.include_whois
       THEN \E reply \in WhoisReplies :
               /\ lookup' = [invoked |-> TRUE, reply |-> reply,
                             result |-> scan_whois(reply)]
               /\ call' = [call EXCEPT ![r] = WhoisDone(@, scan_whois(reply))]
       ELSE /\ call' = [call EXCEPT ![r].pc = "subdomains"]
            /\ UNCHANGED lookup
    /\ UNCHANGED <<tables, faults, dnsVars, dcall, seen, norm, nsnorm>>

\* Step 5: the for loop over what scan_subdomains returned.
Subdomains(r) ==
    /\ call[r].pc = "subdomains"
    /\ IF call[r].req.include_subdomains
       THEN LET subdomain_results == scan_subdomains(NormalizedName(call[r].req))
            IN IF Iterable(subdomain_results)
               THEN call' = [call EXCEPT
                       ![r].session.subs =
                           [k \in 1..Len(subdomain_results.items) |->
                               SubdomainRow(call[r].scan, subdomain_results.items[k])],
                       ![r].pc = "complete"]
               ELSE call' = [call EXCEPT ![r].exc = "TypeError", ![r].pc = "except"]
       ELSE call' = [call EXCEPT ![r].pc = "complete"]
    /\ UNCHANGED <<tables, faults, dnsVars, restVars>>

\* Step 6: the commit that writes the records and status=completed. When it
\* raises, the transaction is rolled back (the pending rows are gone from the
\* session) and the except block runs.
Complete(r) ==
    /\ call[r].pc = "complete"
    /\ \/ /\ Commit(call[r], MarkCompleted(scans[call[r].scan]))
          /\ call' = [call EXCEPT ![r].session = EmptySession, ![r].pc = "return"]
          /\ UNCHANGED faults
       \/ /\ Inject
          /\ call' = [call EXCEPT ![r].exc = "OperationalError",
                                  ![r].session = EmptySession,
                                  ![r].pc = "except"]
          /\ UNCHANGED tables
    /\ UNCHANGED <<dnsVars, restVars>>

\* The except block: status=failed, the message and the time, a commit, and
\* HTTPException(500). Its commit may raise as well, and nothing catches that.
Except(r) ==
    /\ call[r].pc = "except"
    /\ \/ /\ Commit(call[r], MarkFailed(scans[call[r].scan], call[r].exc))
          /\ call' = [call EXCEPT ![r] = HandlerExit(@)]
          /\ UNCHANGED faults
       \/ /\ Inject
          /\ call' = [call EXCEPT ![r] = Finished(@, 500, "OperationalError", None)]
          /\ UNCHANGED tables
    /\ UNCHANGED <<dnsVars, restVars>>

\* Step 7: db.refresh(scan) and the response.
Return(r) ==
    /\ call[r].pc = "return"
    /\ \/ /\ call' = [call EXCEPT ![r] =
                        Finished(@, 201, "", Some(ScanResult(call[r].scan)))]
          /\ UNCHANGED faults
       \/ /\ Inject
          /\ call' = [call EXCEPT ![r] = Finished(@, 500, "OperationalError", None)]
    /\ UNCHANGED <<tables, dnsVars, restVars>>

\* ------------------------------------------------------------ the collector
\* scan_dns_records on its own: the resolver is set up, ...
Setup ==
    /\ collector.phase = "start"
    /\ \E setup \in ResolverSetups : collector' = Configure(collector, setup)
    /\ UNCHANGED <<tables, call, faults, log, restVars>>

\* ... and each resolve() call is logged with what the loop does with it.
Resolve ==
    /\ collector.phase = "loop"
    /\ \E outcome \in Outcomes :
          /\ collector' = QueryType(collector, outcome)
          /\ log' = Append(log, outcome)
    /\ UNCHANGED <<tables, call, faults, restVars>>

\* ------------------------------------------------- the rest of the service
NewDomainName_Raw(domain_data) == domain_data.domain_name

\* Domain(domain_name=domain_data.domain_name.lower())
NewDomainName(domain_data) == Lower(domain_data.domain_name)

\* create_domain, the lookup: by the name as the request spells it; 400 when
\* a row has it.
CreateDomain ==
    /\ dcall.pc = "idle"
    /\ \E n \in Names :
          IF FindDomain(n) # 0
          THEN dcall' = [pc |-> "idle", name |-> n,
                         resp |-> [code |-> 400, detail |-> "already exists",
                                   body |-> None]]
          ELSE dcall' = [pc |-> "insert", name |-> n, resp |-> NoResponse]
    /\ UNCHANGED <<tables, call, faults, dnsVars, lookup, seen, norm, nsnorm>>

\* create_domain, the insert of the lowercased name: db.add; db.commit;
\* db.refresh. The unique column refuses a name that is there (IntegrityError);
\* the commit or the refresh may raise for the database's own reasons.
CreateDomainInsert ==
    /\ dcall.pc = "insert"
    /\ LET name == NewDomainName([domain_name |-> dcall.name])
           Answer(code, detail, body) ==
               [dcall EXCEPT !.pc = "idle",
                             !.resp = [code |-> code, detail |-> detail,
                                       body |-> body]]
       IN \/ /\ FindDomain(name) # 0
             /\ dcall' = Answer(500, "IntegrityError", None)
             /\ UNCHANGED domains
          \/ /\ FindDomain(name) = 0
             /\ domains' = Append(domains, DomainRow(name))
             /\ dcall' = Answer(201, "", Some(DomainRow(name)))
          \/ /\ FindDomain(name) = 0
             /\ dcall' = Answer(500, "OperationalError", None)
             /\ \/ UNCHANGED domains
                \/ domains' = Append(domains, DomainRow(name))
    /\ UNCHANGED <<scans, dns_records, whois_data, subdomains, call, faults,
                   dnsVars, lookup, seen, norm, nsnorm>>

\* delete_domain(domain_id): 404, or is_active = False and a commit, which
\* may raise.
delete_domain ==
    /\ \E domain_id \in 1..(Len(domains) + 1) :
          IF domain_id > Len(domains)
          THEN /\ seen' = [code |-> 404, detail |-> "delete_domain", body |-> None]
               /\ UNCHANGED domains
          ELSE \/ /\ domains' = [domains EXCEPT ![domain_id].is_active = FALSE]
                  /\ seen' = [code |-> 204, detail |-> "delete_domain",
                              body |-> None]
               \/ /\ seen' = [code |-> 500, detail |-> "OperationalError",
                              body |-> None]
                  /\ UNCHANGED domains
    /\ UNCHANGED <<scans, dns_records, whois_data, subdomains, call, faults,
                   dnsVars, lookup, dcall, norm, nsnorm>>

\* db.query(Domain).filter(Domain.is_active == True): the ids of the rows.
ActiveDomains == {id \in 1..Len(domains) : domains[id].is_active}

\* list_domains(), with its default page (skip=0, limit=100, more than the
\* rows there are): the active rows, in no stated order, and their count.
list_domains ==
    /\ seen' = [code |-> 200, detail |-> "list_domains",
                body |-> Some([domains |-> {[id |-> id] @@ domains[id] :
                                               id \in ActiveDomains},
                               total |-> Cardinality(ActiveDomains)])]
    /\ UNCHANGED <<tables, call, faults, dnsVars, lookup, dcall, norm, nsnorm>>

\* get_scan(scan_id), in a session of its own: 404, or the scan with its
\* domain and records as committed.
get_scan ==
    /\ \E scan_id \in 1..(Len(scans) + 1) :
          seen' = IF scan_id > Len(scans)
                  THEN [code |-> 404, detail |-> "get_scan", body |-> None]
                  ELSE [code |-> 200, detail |-> "get_scan",
                        body |-> Some(ScanResult(scan_id))]
    /\ UNCHANGED <<tables, call, faults, dnsVars, lookup, dcall, norm, nsnorm>>

\* The scans, the most recent first.
MostRecentFirst(rows) == [k \in 1..Len(rows) |-> rows[Len(rows) + 1 - k]]

\* list_scans()
list_scans ==
    /\ seen' = [code |-> 200, detail |-> "list_scans",
                body |-> Some(MostRecentFirst(scans))]
    /\ UNCHANGED <<tables, call, faults, dnsVars, lookup, dcall, norm, nsnorm>>

\* ------------------------------------------------------------ the normalizer
\* The texts answers are made of: up to MaxText characters, letters and dots.
MaxText == 3
Texts == UNION {[1..n -> {"a", "."}] : n \in 1..MaxText}

\* The answers of each type that _extract_record_value is given.
Rdatas(record_type) ==
    CASE record_type = "MX" ->
            {[exchange |-> t, preference |-> 10] : t \in Texts}
      [] record_type = "TXT" ->
            {[strings |-> <<t>>] : t \in Texts}
                \cup {[strings |-> <<t, u>>] : t \in Texts, u \in Texts}
      [] record_type = "SOA" ->
            {[mname |-> t, rname |-> u, serial |-> <<"7">>] :
                t \in Texts, u \in Texts}
      [] OTHER -> {[text |-> t] : t \in Texts}

\* A call of _extract_record_value.
Normalize ==
    /\ \E rt \in {RECORD_TYPES[k] : k \in 1..Len(RECORD_TYPES)} :
          \E rdata \in Rdatas(rt) :
              norm' = [record_type |-> rt, rdata |-> rdata,
                       value |-> _extract_record_value(rdata, rt)]
    /\ UNCHANGED <<tables, call, faults, dnsVars, lookup, dcall, seen, nsnorm>>

\* The name_servers values _normalize_nameservers is given: None, a lone
\* string, or a list of up to MaxNs strings; the strings have up to MaxNsText
\* characters, a lowercase letter, an uppercase letter and the dot, and the
\* empty string is one of them.
MaxNs == 2
MaxNsText == 2
NsTexts == UNION {[1..n -> {"a", "B", "."}] : n \in 0..MaxNsText}
NsScalars == {[t |-> "none"]} \cup {[t |-> "str", v |-> x] : x \in NsTexts}
NsLists ==
    {[t |-> "list", v |-> l] : l \in UNION {[1..n -> NsTexts] : n \in 0..MaxNs}}

\* _normalize_nameservers(ns_value) is called and returns.
NameserversCall(ns_value) ==
    nsnorm' = [called |-> TRUE, ns_value |-> ns_value,
               nameservers |-> _normalize_nameservers(ns_value)]

\* The one call of _normalize_nameservers of a run.
NormalizeNameservers ==
    /\ ~nsnorm.called
    /\ \/ \E ns_value \in NsScalars : NameserversCall(ns_value)
       \/ \E ns_value \in NsLists : NameserversCall(ns_value)
    /\ UNCHANGED <<tables, call, faults, dnsVars, lookup, dcall, seen, norm>>

\* ------------------------------------------------------------ specifications
\* Concurrent calls: any call takes its next step.
Next ==
    \E r \in Calls :
        \/ Receive(r)
        \/ GetDomain(r)
        \/ AddDomain(r)
        \/ AddScan(r)
        \/ RunDns(r)
        \/ Whois(r)
        \/ Subdomains(r)
        \/ Complete(r)
        \/ Except(r)
        \/ Return(r)

Spec == Init /\ [][Next]_vars

\* One call at a time: a request arrives when no call is in progress.
ReceiveSeq(r) ==
    /\ \A other \in Calls : call[other].pc \in {"idle", "done"}
    /\ Receive(r)

NextSeq ==
    \E r \in Calls :
        \/ ReceiveSeq(r)
        \/ GetDomain(r)
        \/ AddDomain(r)
        \/ AddScan(r)
        \/ RunDns(r)
        \/ Whois(r)
        \/ Subdomains(r)
        \/ Complete(r)
        \/ Except(r)
        \/ Return(r)

SpecSeq == Init /\ [][NextSeq]_vars

\* One call, its DNS collector run query by query.
NextScan ==
    \/ Receive(1)
    \/ GetDomain(1)
    \/ AddDomain(1)
    \/ AddScan(1)
    \/ DnsSetup(1)
    \/ DnsQuery(1)
    \/ DnsReturn(1)
    \/ WhoisLookup(1)
    \/ Subdomains(1)
    \/ Complete(1)
    \/ Except(1)
    \/ Return(1)

SpecScan == Init /\ [][NextScan]_vars

\* The service: one create_scan call, with create_domain, delete_domain,
\* list_domains, get_scan and list_scans running beside it.
NextSvc ==
    \/ Request(1)
    \/ GetDomain(1)
    \/ AddDomain(1)
    \/ AddScan(1)
    \/ RunDns(1)
    \/ WhoisLookup(1)
    \/ Subdomains(1)
    \/ Complete(1)
    \/ Except(1)
    \/ Return(1)
    \/ CreateDomain
    \/ CreateDomainInsert
    \/ delete_domain
    \/ list_domains
    \/ get_scan
    \/ list_scans

SpecSvc == Init /\ [][NextSvc]_vars

\* The normalizer alone.
NextNorm == Normalize

SpecNorm == Init /\ [][NextNorm]_vars

\* The name-server normalizer alone.
NextNs == NormalizeNameservers

SpecNs == Init /\ [][NextNs]_vars

\* The DNS collector alone.
NextDNS == Setup \/ Resolve

SpecDNS == Init /\ [][NextDNS]_vars

\* --------------------------------------------------------------- create_scan
\* The Scan row a call created.
ScanOf(r) == scans[call[r].scan]

\* C1: once create_scan has returned or raised, the Scan it created is
\* completed or failed, whatever a collector or a commit of steps 3-6 raised,
\* the commit of the except block included.
C1_NeverStuckRunning ==
    \A r \in Calls :
        (call[r].pc = "done" /\ call[r].scan # 0) =>
            ScanOf(r).status \in {"completed", "failed"}

\* C2: for every Scan row, status is completed or failed exactly when
\* completed_at is set, and a running row has no completed_at.
C2_StatusIffCompletedAt ==
    \A id \in 1..Len(scans) :
        /\ scans[id].status \in {"running", "completed", "failed"}
        /\ (scans[id].status \in {"completed", "failed"}
                <=> scans[id].completed_at # None)
        /\ (scans[id].status = "running" => scans[id].completed_at = None)

\* A completed row, a failed row, each with its completion time.
C2_Witness ==
    /\ \E id \in 1..Len(scans) :
          scans[id].status = "completed" /\ scans[id].completed_at = Some(utcnow)
    /\ \E id \in 1..Len(scans) :
          scans[id].status = "failed" /\ scans[id].completed_at = Some(utcnow)

\* C3: a call with include_subdomains, the collectors not raising and
\* persistence succeeding, ends with 201 and the Scan completed, its
\* subdomain list empty (the stub returns none).
C3_SubdomainsCompleted ==
    LET c == call[1]
    IN (/\ c.pc = "done"
        /\ c.req.include_subdomains
        /\ faults = 0
        /\ collector.phase = "returned")
       => /\ c.resp.code = 201
          /\ ScanOf(1).status = "completed"
          /\ RowsOf(subdomains, c.scan) = <<>>

\* C4: when the commit that writes status=completed has raised (the except
\* block holds its OperationalError), the row is failed, with its message and
\* completion time, once the call is over.
C4_FinalCommitFailure ==
    [][\A r \in Calls :
          (/\ call[r].pc = "except"
           /\ call[r].exc = "OperationalError"
           /\ call'[r].pc = "done")
          => /\ scans'[call[r].scan].status = "failed"
             /\ scans'[call[r].scan].error_message # None
             /\ scans'[call[r].scan].completed_at # None]_vars

\* The calls that are past step 2.
PastAddScan == {r \in Calls : call[r].pc \notin {"idle", "get_domain",
                                                 "add_domain", "add_scan"}}

\* C5: calls made one after the other: every call that created a Scan has a
\* row of its own, under the one Domain row that carries the lowercased name
\* of its request; no name has two Domain rows; when no persistence call
\* failed there are as many Scan rows as calls past step 2; and the Scan a
\* call returned is still, unchanged, what the database holds.
C5_AppendOnlyHistory ==
    /\ \A i, j \in 1..Len(domains) :
          domains[i].domain_name = domains[j].domain_name => i = j
    /\ \A i \in 1..Len(domains) :
          domains[i].domain_name = Lower(domains[i].domain_name)
    /\ \A r \in Calls :
          call[r].scan # 0 =>
              /\ call[r].scan \in 1..Len(scans)
              /\ ScanOf(r).domain_id \in 1..Len(domains)
              /\ domains[ScanOf(r).domain_id].domain_name
                    = Lower(call[r].req.domain_name)
    /\ \A r, s \in Calls :
          (r # s /\ call[r].scan # 0 /\ call[s].scan # 0)
              => call[r].scan # call[s].scan
    /\ faults = 0 =>
          /\ Len(scans) = Cardinality(PastAddScan)
          /\ \A r \in PastAddScan : call[r].scan # 0
    /\ \A r \in Calls :
          (call[r].pc = "done" /\ call[r].resp.code = 201)
              => call[r].resp.body = Some(ScanResult(call[r].scan))

\* Two calls for one name in two spellings, both finished: two Scan rows
\* under the single Domain row "abc".
C5_Witness ==
    /\ call[1].pc = "done" /\ call[2].pc = "done"
    /\ call[1].req.domain_name = <<"A", "b", "C">>
    /\ call[2].req.domain_name = <<"a", "b", "c">>
    /\ call[1].resp.code = 201 /\ call[2].resp.code = 201
    /\ call[1].scan = 1 /\ call[2].scan = 2
    /\ Len(domains) = 1 /\ domains[1].domain_name = <<"a", "b", "c">>
    /\ scans[1].domain_id = 1 /\ scans[2].domain_id = 1

\* C6: no call fails on the insert of a Domain that a concurrent call has
\* inserted meanwhile.
C6_RaceLoserDoesNotError ==
    \A r \in Calls :
        call[r].pc = "done" =>
            ~(call[r].resp.code = 500 /\ call[r].resp.detail = "IntegrityError")

\* C7: a call whose Scan is failed has answered 500, without a result, and a
\* call that answered 201 returned a Scan that is completed.
C7_NoSilentSuccess ==
    \A r \in Calls :
        call[r].pc = "done" =>
            /\ (call[r].scan # 0 /\ ScanOf(r).status = "failed")
                  => (call[r].resp.code = 500 /\ call[r].resp.body = None)
            /\ call[r].resp.code = 201
                  => /\ call[r].resp.body # None
                     /\ call[r].resp.body[1].scan.status = "completed"
                     /\ call[r].scan # 0
                     /\ ScanOf(r).status = "completed"

\* One call failed and answered 500, the next completed and answered 201.
C7_Witness ==
    /\ call[1].pc = "done" /\ call[1].scan # 0
    /\ scans[call[1].scan].status = "failed"
    /\ call[1].resp.code = 500
    /\ call[2].pc = "done" /\ call[2].scan # 0
    /\ scans[call[2].scan].status = "completed"
    /\ call[2].resp.code = 201

\* C8: a call without include_subdomains, the resolver set up (the collector
\* has issued a query) and no persistence call failing: whatever each DNS
\* query and the WHOIS lookup did, the except block is never entered, the
\* Scan is committed completed with no error_message and with exactly the
\* rows of what the collectors returned, and the call answers 201.
C8_SoftFailuresComplete ==
    LET c == call[1]
    IN (~c.req.include_subdomains /\ faults = 0 /\ collector.queries >= 1)
       => /\ c.pc # "except"
          /\ c.pc \in {"whois", "subdomains", "complete"}
                => ScanOf(1).status = "running"
          /\ c.pc \in {"return", "done"}
                => /\ ScanOf(1).status = "completed"
                   /\ ScanOf(1).error_message = None
                   /\ RowsOf(dns_records, c.scan)
                         = DnsRows(c.scan, collector.results)
                   /\ RowsOf(subdomains, c.scan) = <<>>
          /\ c.pc = "return"
                => RowsOf(whois_data, c.scan)
                      = WhoisRows(c.scan, c.whois_result)
          /\ c.pc = "done"
                => /\ c.resp.code = 201
                   /\ c.resp.body = Some(ScanResult(c.scan))

\* A answered, AAAA failed softly, MX ended in NXDOMAIN, WHOIS gave nothing:
\* the Scan is completed with the two A records.
C8_Witness ==
    /\ call[1].pc = "done"
    /\ ~call[1].req.include_subdomains /\ call[1].req.include_whois
    /\ faults = 0
    /\ collector.queries = 3 /\ Len(collector.results) = 2
    /\ call[1].resp.code = 201
    /\ call[1].resp.body[1].scan.status = "completed"
    /\ Len(call[1].resp.body[1].dns_records) = 2
    /\ call[1].resp.body[1].whois = None

\* ------------------------------------------------------------- DNS collector
\* The records a run of the loop should have gathered after the queries in
\* `l` (the k-th entry is what the query for the k-th type did): the records
\* of the types that answered, in the order of the types.
RECURSIVE Collected(_)
Collected(l) ==
    IF l = <<>> THEN <<>>
    ELSE Collected(SubSeq(l, 1, Len(l) - 1))
            \o (IF l[Len(l)] = "answers"
                THEN AnswerRecords(RECORD_TYPES[Len(l)]) ELSE <<>>)

\* C9: when the query for the k-th type ends in NXDOMAIN, it is the last
\* query (k queries in all, none for a later type), the collector has
\* returned, and what it returns is exactly the records of the types before
\* k; NXDOMAIN on the first type gives the empty sequence after one query.
C9_FastAbort ==
    \A k \in 1..Len(log) :
        log[k] = "NXDOMAIN" =>
            /\ Len(log) = k
            /\ collector.queries = k
            /\ collector.phase = "returned"
            /\ collector.results = Collected(SubSeq(log, 1, k - 1))
            /\ (k = 1 => collector.results = <<>>)

\* A and MX answered, AAAA timed out, and TXT ended in NXDOMAIN.
C9_Witness ==
    /\ log = <<"answers", "Timeout", "answers", "NXDOMAIN">>
    /\ collector.phase = "returned"
    /\ collector.queries = 4
    /\ Len(collector.results) = 3

\* C10: a query that ends in NoAnswer, NoNameservers, Timeout or any other
\* error adds no record and does not stop the loop: the results are always
\* the records of the types that answered, nothing is raised, the query
\* after a soft failure on a type before the last is issued (the loop is at
\* the next type until it is), and a run without NXDOMAIN returns only after
\* all seven types were queried.
C10_SoftSkip ==
    /\ collector.results = Collected(log)
    /\ collector.queries = Len(log)
    /\ (collector.phase = "loop" => collector.i = Len(log) + 1)
    /\ \A k \in 1..Len(log) :
          log[k] \in SoftErrors =>
              /\ collector.phase # "raised"
              /\ (k < Len(RECORD_TYPES) /\ Len(log) = k =>
                      collector.phase = "loop")
    /\ (collector.phase = "returned" /\ \A k \in 1..Len(log) : log[k] # "NXDOMAIN")
          => Len(log) = Len(RECORD_TYPES)

\* A timed out and MX answered: the MX record is returned, and no A record.
C10_Witness ==
    /\ Len(log) = Len(RECORD_TYPES)
    /\ log[1] = "Timeout"
    /\ log[3] = "answers"
    /\ log[7] = "Exception"
    /\ collector.phase = "returned"
    /\ \E k \in 1..Len(collector.results) :
          /\ collector.results[k].record_type = "MX"
          /\ collector.results[k].record_value = <<"m", "x">>
          /\ collector.results[k].priority = 10
    /\ \A k \in 1..Len(collector.results) : collector.results[k].record_type # "A"

\* C11: scan_dns_records never raises, the set-up of the resolver included:
\* the collector is never left by an exception.
C11_DnsNeverRaises == collector.phase # "raised"

\* ------------------------------------------------------------ WHOIS collector
\* C12: scan_whois never raises: whatever whois.whois did, it returns; and
\* when the response could not be parsed, the lookup failed otherwise, or
\* normalizing a field of the entry raised, what it returns is None, and the
\* scan that made the call does not enter its except block for it.
C12_WhoisNeverRaises ==
    lookup.invoked =>
        /\ lookup.result.raised = ""
        /\ WhoisTry(lookup.reply).exc # "" => lookup.result.value = None
        /\ (~call[1].req.include_subdomains /\ faults = 0)
              => call[1].pc # "except"

\* The entry's name_servers could not be normalized: no data, and the scan
\* went on to complete.
C12_Witness ==
    /\ lookup.invoked
    /\ lookup.reply.kind = "entry"
    /\ NameserversRaise(lookup.reply.w.name_servers)
    /\ lookup.result = [raised |-> "", value |-> None]
    /\ call[1].pc = "done"
    /\ call[1].resp.code = 201

\* ---------------------------------------------------------------- the service
\* What the collectors of the scan returned: the DNS records, and the WHOIS
\* data if any.
DnsGathered == scan_dns_records("ok", Resolver).results
WhoisGathered == lookup.result.value

\* A view of a Scan (what get_scan answers) in which a running Scan owns no
\* record, and a completed one owns every record the collectors returned.
Consistent(v) ==
    /\ v.scan.status = "running"
          => (v.dns_records = <<>> /\ v.whois = None /\ v.subdomains = <<>>)
    /\ v.scan.status = "completed"
          => /\ v.dns_records = DnsRows(v.scan.id, DnsGathered)
             /\ v.whois = IF WhoisGathered = None THEN None
                          ELSE Some(WhoisDataRow(v.scan.id, WhoisGathered[1]))
             /\ v.subdomains = <<>>

FinalIsFinal ==
    /\ Len(scans') >= Len(scans)
    /\ \A id \in 1..Len(scans') :
          id > Len(scans) => scans'[id].status = "running"
    /\ \A id \in 1..Len(scans) :
          /\ scans[id].status # "running" => scans'[id] = scans[id]
          /\ scans'[id].status # scans[id].status
                => scans'[id].status \in {"completed", "failed"}

\* C14: a Scan is created running, its status changes exactly once, to
\* completed or failed, and nothing changes it afterwards: every step keeps
\* the terminal rows as they are, and the Scan of a call that is over has
\* made its one change.
C14_FinalizedExactlyOnce ==
    /\ [][FinalIsFinal]_vars
    /\ [](\A r \in Calls :
            (call[r].pc = "done" /\ call[r].scan # 0)
                => ScanOf(r).status # "running")

\* ------------------------------------------------------------------ results
\* C15: the result of a completed create_scan without include_subdomains and
\* with include_whois, the WHOIS collector having returned data: status
\* completed, one DNS record for each record the DNS collector returned, in
\* its order and with its type, value, ttl and priority, the one WHOIS record
\* built from the data, and no subdomain.
C15_ResultAggregates ==
    LET c == call[1]
    IN (/\ c.pc = "done" /\ c.resp.code = 201
        /\ ~c.req.include_subdomains /\ c.req.include_whois
        /\ lookup.result.value # None)
       => LET b == c.resp.body[1]
          IN /\ b.scan.status = "completed"
             /\ Len(b.dns_records) = Len(collector.results)
             /\ \A k \in 1..Len(collector.results) :
                   /\ b.dns_records[k].scan_id = c.scan
                   /\ b.dns_records[k].record_type
                         = collector.results[k].record_type
                   /\ b.dns_records[k].record_value
                         = collector.results[k].record_value
                   /\ b.dns_records[k].ttl = Some(collector.results[k].ttl)
                   /\ b.dns_records[k].priority
                         = Get(collector.results[k], "priority")
             /\ b.whois # None
             /\ b.whois[1].scan_id = c.scan
             /\ b.whois[1].registrar = lookup.result.value[1].registrar
             /\ b.whois[1].name_servers = lookup.result.value[1].name_servers
             /\ b.whois[1].raw_data = lookup.result.value[1].raw_data
             /\ Len(RowsOf(whois_data, c.scan)) = 1
             /\ b.subdomains = <<>>

\* The DNS collector returned two records (the A answers) and the WHOIS
\* collector data: the result holds two DNS records and the WHOIS record.
C15_Witness ==
    /\ call[1].pc = "done" /\ call[1].resp.code = 201
    /\ ~call[1].req.include_subdomains /\ call[1].req.include_whois
    /\ Len(collector.results) = 2
    /\ lookup.result.value # None
    /\ Len(call[1].resp.body[1].dns_records) = 2
    /\ call[1].resp.body[1].whois # None
    /\ call[1].resp.body[1].subdomains = <<>>
    /\ call[1].resp.body[1].scan.status = "completed"

\* C16: no Scan owns more than one WHOIS record; a completed Scan owns one
\* exactly when its request had include_whois and scan_whois returned data;
\* and a call without include_whois never calls scan_whois.
C16_WhoisRecordIff ==
    LET c == call[1]
    IN /\ \A id \in 1..Len(scans) : Len(RowsOf(whois_data, id)) <= 1
       /\ (c.scan # 0 /\ ScanOf(1).status = "completed")
             => (Len(RowsOf(whois_data, c.scan)) = 1
                    <=> (c.req.include_whois /\ lookup.result.value # None))
       /\ (c.pc # "idle" /\ ~c.req.include_whois) => ~lookup.invoked

\* A completed Scan whose request had include_whois and whose lookup gave
\* data owns its one WHOIS record.
C16_Witness ==
    /\ call[1].scan # 0
    /\ scans[call[1].scan].status = "completed"
    /\ call[1].req.include_whois
    /\ lookup.invoked /\ lookup.result.value # None
    /\ Len(RowsOf(whois_data, call[1].scan)) = 1

\* What the collectors have handed to create_scan by now.
DnsReturned == IF collector.phase = "returned" THEN collector.results ELSE <<>>
WhoisReturned == IF lookup.invoked THEN lookup.result.value ELSE None

\* C22: a Scan that create_scan marked failed because a step after the
\* collection raised (anything but a failed commit) owns the DNS records and
\* the WHOIS record that had been added to the session, and no subdomain; as
\* long as the Scan is running it owns nothing, so the records are written by
\* the commit that writes status=failed.
C22_FailedKeepsPartial ==
    LET c == call[1]
    IN c.scan # 0 =>
          /\ ScanOf(1).status = "running"
                => /\ RowsOf(dns_records, c.scan) = <<>>
                   /\ RowsOf(whois_data, c.scan) = <<>>
          /\ (/\ ScanOf(1).status = "failed"
              /\ ScanOf(1).error_message # Some("OperationalError"))
                => /\ RowsOf(dns_records, c.scan) = DnsRows(c.scan, DnsReturned)
                   /\ RowsOf(whois_data, c.scan)
                         = WhoisRows(c.scan, WhoisReturned)
                   /\ RowsOf(subdomains, c.scan) = <<>>

\* The subdomain step raised after three DNS records and the WHOIS data had
\* been added: the failed Scan owns the three DNS records and the WHOIS record.
C22_Witness ==
    /\ call[1].pc = "done" /\ call[1].resp.code = 500
    /\ call[1].scan # 0
    /\ scans[call[1].scan].status = "failed"
    /\ scans[call[1].scan].error_message = Some("TypeError")
    /\ Len(collector.results) = 3
    /\ lookup.invoked /\ lookup.result.value # None
    /\ Len(RowsOf(dns_records, call[1].scan)) = 3
    /\ Len(RowsOf(whois_data, call[1].scan)) = 1

\* The parsed entry names no domain: domain_name is None, "" or [].
EmptyDomainField(w) ==
    \/ w.domain_name.t = "none"
    \/ (w.domain_name.t \in {"str", "list"} /\ w.domain_name.v = <<>>)

\* C17: when the parsed response has an empty or nil domain field, scan_whois
\* returns None without raising, and the scan persists no WHOIS record.
C17_EmptyDomainNoData ==
    (/\ lookup.invoked
     /\ lookup.reply.kind = "entry"
     /\ EmptyDomainField(lookup.reply.w))
    => /\ lookup.result = [raised |-> "", value |-> None]
       /\ call[1].scan # 0 => RowsOf(whois_data, call[1].scan) = <<>>

\* ------------------------------------------------------------------ domains
\* Every stored name is lowercase, and no two rows have the same name.
LowercaseUnique ==
    /\ \A i \in 1..Len(domains) :
          domains[i].domain_name = Lower(domains[i].domain_name)
    /\ \A i, j \in 1..Len(domains) :
          domains[i].domain_name = domains[j].domain_name => i = j

\* A step removes no Domain row and renames none.
DomainsKept ==
    \A i \in 1..Len(domains) :
        /\ i <= Len(domains')
        /\ domains'[i].domain_name = domains[i].domain_name

\* C18: in every state the stored Domain names are lowercase and pairwise
\* different, whether create_scan or create_domain inserted them and however
\* the requests spelled them; and no step, delete_domain included, removes a
\* Domain row.
C18_DomainIdentity == []LowercaseUnique /\ [][DomainsKept]_vars

\* create_domain stored "abc" for the request "AbC", delete_domain then
\* deactivated that row, which is still there, and create_scan created the
\* second Domain.
C18_Witness ==
    /\ Len(domains) = 2
    /\ domains[1] = [domain_name |-> <<"a", "b", "c">>, is_active |-> FALSE]
    /\ domains[2].domain_name = <<"x", "y", "z">>
    /\ dcall.name = <<"A", "b", "C">> /\ dcall.resp.code = 201
    /\ seen.code = 204
    /\ call[1].scan # 0 /\ scans[call[1].scan].domain_id = 2

\* ------------------------------------------------------------------ requests
\* The length of the name is outside 3..255.
BadLength(n) == Len(n) < 3 \/ Len(n) > 255

\* C19, as the specification states it: a scan request whose name has a
\* length outside 3..255 is answered 400 and creates no Domain and no Scan.
C19_Rejected400 ==
    \A r \in Calls :
        (call[r].pc # "idle" /\ BadLength(call[r].req.domain_name))
            => /\ call[r].pc = "done"
               /\ call[r].resp.code = 400
               /\ call[r].scan = 0
               /\ scans = <<>>
               /\ FindDomain(Lower(call[r].req.domain_name)) = 0

\* C19, as the program behaves: such a request is answered 422, the
\* validation error of the framework, and creates no Domain and no Scan.
C19_Rejected422 ==
    \A r \in Calls :
        (call[r].pc # "idle" /\ BadLength(call[r].req.domain_name))
            => /\ call[r].pc = "done"
               /\ call[r].resp.code = 422
               /\ call[r].resp.body = None
               /\ call[r].scan = 0
               /\ scans = <<>>
               /\ FindDomain(Lower(call[r].req.domain_name)) = 0

\* A request with a name of 256 characters was answered 422; no Scan exists.
C19_Witness ==
    /\ call[1].pc = "done"
    /\ Len(call[1].req.domain_name) = 256
    /\ call[1].resp.code = 422
    /\ scans = <<>>

\* --------------------------------------------------------------- normalizer
EndsWithDot(v) == v # <<>> /\ v[Len(v)] = "."

\* A text of dots only.
Dots(k) == [i \in 1..k |-> "."]

\* C20, as the specification states it: for every record type and answer,
\* record_value does not end with a dot.
C20_NoTrailingDot == norm.record_type # "" => ~EndsWithDot(norm.value)

\* C20, as the program behaves: for A, AAAA, NS, CNAME and MX the value is
\* the string form of the answer (of the exchange, for MX) less all its
\* trailing dots, and so does not end with a dot; the SOA value ends with
\* ")"; the TXT value is the joined strings as they are, and ends with a
\* dot when the text does.
C20_NoTrailingDotNames ==
    LET source == IF norm.record_type = "MX" THEN norm.rdata.exchange
                                             ELSE norm.rdata.text
    IN /\ norm.record_type \in {"A", "AAAA", "NS", "CNAME", "MX"}
             => /\ ~EndsWithDot(norm.value)
                /\ \E k \in 0..Len(source) : source = norm.value \o Dots(k)
       /\ norm.record_type = "SOA"
             => norm.value[Len(norm.value)] = ")"
       /\ norm.record_type = "TXT"
             => /\ norm.value = join(norm.rdata.strings)
                /\ EndsWithDot(norm.value)
                      <=> EndsWithDot(
                              norm.rdata.strings[Len(norm.rdata.strings)])

\* An NS answer whose string form ends with two dots: both are stripped.
C20_Witness ==
    /\ norm.record_type = "NS"
    /\ norm.rdata.text = <<"a", ".", ".">>
    /\ norm.value = <<"a">>

\* -------------------------------------------------------------- create_domain
\* create_domain looks the requested name up, and a row has its lowercased
\* form: the call answers 400 and goes no further.
DuplicateRejected ==
    (/\ dcall.pc = "idle"
     /\ dcall' # dcall
     /\ FindDomain(Lower(dcall'.name)) # 0)
        => /\ dcall'.pc = "idle"
           /\ dcall'.resp.code = 400
           /\ dcall'.resp.detail = "already exists"

\* C23: for every requested name whose lowercased form is the name of an
\* existing Domain row, create_domain answers 400 'already exists' and
\* attempts no insert.
C23_DuplicateRejected == [][DuplicateRejected]_vars

\* ---------------------------------------------------- soft-deleted domains
\* create_scan looks its name up and a row has it, active or not: the call
\* binds that row and goes on to create the Scan, without an insert.
BindsExistingRow ==
    \A id \in 1..Len(domains) :
        (/\ call[1].pc = "get_domain"
         /\ call'[1].pc # "get_domain"
         /\ domains[id].domain_name = Lower(call[1].req.domain_name))
           => /\ call'[1].pc = "add_scan"
              /\ call'[1].domain = id
              /\ domains' = domains

\* The Scan a call creates belongs to the row the call bound.
AttachesToBoundRow ==
    (call[1].scan = 0 /\ call'[1].scan # 0)
        => scans'[call'[1].scan].domain_id = call[1].domain

\* No step of create_scan touches a row of domains that is there.
KeepsDomainRows ==
    call' # call => \A id \in 1..Len(domains) : domains'[id] = domains[id]

\* A fresh list_domains response holds the active rows and no other.
ListsActiveOnly ==
    (/\ seen'.detail = "list_domains"
     /\ seen.detail = "list_domains" => seen'.body # seen.body)
        => /\ \A id \in 1..Len(domains) :
                  ([id |-> id] @@ domains[id] \in seen'.body[1].domains)
                      <=> domains[id].is_active
           /\ seen'.body[1].total = Cardinality(ActiveDomains)

\* The Scan of the call belongs to the one row that has the call's name.
OneRowPerName ==
    call[1].scan # 0 =>
        LET name == Lower(call[1].req.domain_name)
        IN /\ domains[ScanOf(1).domain_id].domain_name = name
           /\ Cardinality({id \in 1..Len(domains) :
                               domains[id].domain_name = name}) = 1

\* C24: create_scan for a name whose Domain row is soft-deleted binds that
\* row and attaches the new Scan to it; it inserts no second row of the name
\* and changes no is_active flag; and list_domains leaves the inactive rows
\* out, whatever scans they own.
C24_SoftDeletedStays ==
    /\ [][BindsExistingRow /\ AttachesToBoundRow /\ KeepsDomainRows
            /\ ListsActiveOnly]_vars
    /\ []OneRowPerName

\* A create_scan call answered 201 with its Scan attached to a domain that
\* the response itself shows inactive; the row is the only one, it is still
\* inactive, and the list_domains response taken since is empty.
C24_Witness ==
    /\ call[1].pc = "done" /\ call[1].resp.code = 201
    /\ call[1].resp.body[1].domain.is_active = FALSE
    /\ Len(domains) = 1
    /\ domains[1].is_active = FALSE
    /\ scans[call[1].scan].domain_id = 1
    /\ scans[call[1].scan].status = "completed"
    /\ seen.detail = "list_domains"
    /\ seen.body[1].total = 0
    /\ seen.body[1].domains = {}

\* ------------------------------------------------- name-server normalizer
\* The list is sorted in code-point order and holds no entry twice.
StrictlySorted(l) ==
    \A i \in 1..Len(l), j \in 1..Len(l) :
        i < j => (StrLeq(l[i], l[j]) /\ l[i] # l[j])

\* C21: for every name_servers value (a lone string or a list of strings)
\* _normalize_nameservers returns None or a non-empty list that is sorted,
\* without duplicates, all lowercase, with no entry ending in a dot and no
\* empty entry; a value with no usable entry (every entry empty once its
\* trailing dots are stripped) gives None; and normalizing the returned list
\* again gives the same list.
C21_NameserversNormalized ==
    nsnorm.called =>
        LET l == IF nsnorm.ns_value.t = "str" THEN <<nsnorm.ns_value.v>>
                 ELSE IF nsnorm.ns_value.t = "list" THEN nsnorm.ns_value.v
                 ELSE <<>>
            out == nsnorm.nameservers
        IN /\ out # None =>
                 /\ out[1] # <<>>
                 /\ StrictlySorted(out[1])
                 /\ \A k \in 1..Len(out[1]) :
                        /\ out[1][k] = Lower(out[1][k])
                        /\ ~EndsWithDot(out[1][k])
                        /\ out[1][k] # <<>>
                 /\ _normalize_nameservers([t |-> "list", v |-> out[1]]) = out
           /\ (\A k \in 1..Len(l) : rstrip(l[k]) = <<>>) => out = None


====
